---- MODULE Spec2Model ----
(***************************************************************************)
(* Model of scripts/generate_stubs.py: the static catalog of type names,   *)
(* create_stub_file (os.makedirs of the parent directory, open(path, 'w'), *)
(* five f.write calls) and main (three nested loops over the catalog).     *)
(*                                                                         *)
(* The filesystem is (dirs, files, links): dirs is the set of paths that   *)
(* are directories, files maps every regular file's path to its content,   *)
(* and links is the set of the groups of paths that are names (hard links) *)
(* of one regular file: such a file is truncated and written under all its *)
(* names at once.  A file that is in no group has one name.  The program   *)
(* makes and removes no link, and a file it creates has one name.          *)
(* Paths, names and contents are strings, relative to the current          *)
(* directory, which is the empty path's directory and always exists.       *)
(* Paths are relative and have no ".." component; "." components, doubled  *)
(* and trailing separators are resolved as the kernel resolves them.  No   *)
(* symbolic link is followed.  Files are keyed by their resolved path.     *)
(* unsearchable is the set of directories the process has no search        *)
(* permission on (the empty path stands for the current directory): a      *)
(* lookup that has to pass through one of them fails with EACCES.  The     *)
(* program changes no mode, and it can search the directories it creates.  *)
(***************************************************************************)
EXTENDS Integers, Sequences, FiniteSets, TLC

VARIABLES
    dirs,    \* set of paths that are directories
    files,   \* function: path of a regular file -> its content
    links,   \* groups of paths that are names of one regular file
    unsearchable, \* directories the process may not search
    todo,    \* indices of the catalog entries main() has not processed yet
    cur,     \* index of the entry of the latest create_stub_file call (0: none)
    call,    \* arguments of the latest create_stub_file call
    pc,      \* "running", "done" (returned normally) or "aborted" (exception)
    err,     \* the exception that ended the run, "none" otherwise
    run,     \* number of the current run of main()
    anchor,  \* reordered loops: the entry the next ones are counted from
    fs0      \* the filesystem as it was when the current run started

vars == <<dirs, files, links, unsearchable, todo, cur, call, pc, err, run, anchor, fs0>>

\* Number of successive runs of main() that are explored.
MaxRuns == 2

\* Reordered loops: how many entries further on than the next one a loop body
\* may be taken from.  With one less than the number of entries, every
\* permutation of the catalog is an order the loops may take.
MaxAhead == 1

----------------------------------------------------------------------------
(* The catalog: lines 17-71 of main().  Python dicts and lists keep their   *)
(* insertion order, so each level is a sequence of (category, types).       *)

base_dir == "PythonTypeGuide"

level1_types == <<
    [category |-> "primitive",
     types |-> <<"int", "float", "str", "bool", "bytes", "complex", "None">>],
    [category |-> "collections",
     types |-> <<"List", "Dict", "Tuple", "Set", "FrozenSet">>],
    [category |-> "utilities",
     types |-> <<"Optional", "Union", "Any", "Literal", "Callable",
                 "Annotated", "Final", "ClassVar", "Type">>],
    [category |-> "abcs",
     types |-> <<"Iterable", "Iterator", "Sequence", "Mapping",
                 "MutableMapping", "Sized", "Container", "Collection">>] >>

level2_types == <<
    [category |-> "structured",
     types |-> <<"TypedDict", "NamedTuple", "TypeAlias", "LiteralString">>],
    [category |-> "abcs",
     types |-> <<"ContextManager", "AsyncContextManager", "Reversible",
                 "Hashable", "SupportsInt">>],
    [category |-> "async",
     types |-> <<"Awaitable", "Coroutine", "AsyncIterator",
                 "AsyncIterable", "Generator">>],
    [category |-> "callable",
     types |-> <<"Callable_Args", "TypeGuard", "NewType">>],
    [category |-> "tools",
     types |-> <<"overload", "cast", "reveal_type", "assert_type",
                 "assert_never">>] >>

level3_types == <<
    [category |-> "generics",
     types |-> <<"Generic", "TypeVar", "TypeVarTuple", "ParamSpec",
                 "Concatenate", "Unpack", "Self">>],
    [category |-> "protocols",
     types |-> <<"Protocol", "runtime_checkable", "is_protocol",
                 "get_protocol_members">>],
    [category |-> "internals",
     types |-> <<"ForwardRef", "get_args", "get_origin", "get_type_hints",
                 "TypeAliasType", "NoReturn", "Never", "NoDefault">>],
    [category |-> "domain",
     types |-> <<"BinaryIO", "IO", "TextIO", "Match", "Pattern", "AnyStr">>],
    [category |-> "decorators",
     types |-> <<"dataclass_transform", "final", "override",
                 "no_type_check", "no_type_check_decorator",
                 "ReadOnly", "Required", "NotRequired">>] >>

----------------------------------------------------------------------------
(* Strings.                                                                 *)

CharAt(s, i) == SubSeq(s, i, i)

UpperCase == "ABCDEFGHIJKLMNOPQRSTUVWXYZ"
LowerCase == "abcdefghijklmnopqrstuvwxyz"

\* str.lower() on one character (ASCII letters; every other character is kept).
LowerChar(c) ==
    IF \E i \in 1..Len(UpperCase) : CharAt(UpperCase, i) = c
    THEN CharAt(LowerCase, CHOOSE i \in 1..Len(UpperCase) : CharAt(UpperCase, i) = c)
    ELSE c

RECURSIVE Lower(_)
\* str.lower()
Lower(s) == IF s = "" THEN "" ELSE LowerChar(CharAt(s, 1)) \o Lower(Tail(s))

\* str.rfind('/') + 1: the position of the last separator, 0 when there is none.
RFindSep(p) ==
    LET at == {i \in 1..Len(p) : CharAt(p, i) = "/"}
    IN  IF at = {} THEN 0 ELSE CHOOSE i \in at : \A j \in at : j <= i

RECURSIVE RStripSep(_)
\* str.rstrip('/')
RStripSep(s) ==
    IF s # "" /\ CharAt(s, Len(s)) = "/" THEN RStripSep(SubSeq(s, 1, Len(s) - 1)) ELSE s

\* Whether s is made of separators only (the empty string included).
AllSeps(s) == \A i \in 1..Len(s) : CharAt(s, i) = "/"

\* The head posixpath.split returns for what precedes the tail: without its
\* trailing separators, unless it is made of separators only.
SplitHead(head) == IF AllSeps(head) THEN head ELSE RStripSep(head)

\* p cut after its i-th character.
SplitAt(p, i) == [head |-> SplitHead(SubSeq(p, 1, i)), tail |-> SubSeq(p, i + 1, Len(p))]

\* posixpath.split(p): (head, tail), tail the part after the last separator.
split(p) == SplitAt(p, RFindSep(p))

\* os.path.dirname(path), line 7.
dirname(p) == split(p).head

\* The positions of the separators of p, and the position after its end.
Seps(p) == {j \in 1..Len(p) : CharAt(p, j) = "/"} \cup {Len(p) + 1}

\* The first of the positions at after position i.
NextSep(at, i) == CHOOSE j \in at : j > i /\ \A k \in at : k > i => j <= k

RECURSIVE PartsFrom(_, _, _)

\* The component of p between positions i and j, when there is one, and the
\* components that follow.
PartsCut(p, at, i, j) ==
    (IF j = i + 1 THEN <<>> ELSE <<SubSeq(p, i + 1, j - 1)>>) \o PartsFrom(p, at, j)

\* The components of p after position i, at being the positions where a
\* component ends.
PartsFrom(p, at, i) ==
    IF i > Len(p) THEN <<>> ELSE PartsCut(p, at, i, NextSep(at, i))

\* The components of p; empty components (doubled, leading or trailing
\* separators) are dropped.
Parts(p) == PartsFrom(p, Seps(p), 0)

RECURSIVE Join(_)
\* The components given, with a separator between them.
Join(parts) ==
    IF parts = <<>> THEN ""
    ELSE IF Len(parts) = 1 THEN Head(parts)
    ELSE Head(parts) \o "/" \o Join(Tail(parts))

\* The sequence sq without its "." elements.
NoDots(sq) == SelectSeq(sq, LAMBDA c : c # ".")

\* Whether the last of the components given is ".".
LastIsDot(parts) == parts # <<>> /\ parts[Len(parts)] = "."

\* Whether p ends with a separator.
Slash(p) == p # "" /\ CharAt(p, Len(p)) = "/"

\* What the kernel makes of the path p with the components parts: the path q
\* it resolves to (the components without the "." ones; the empty q is the
\* current directory), whether its last component is "." (p then names a
\* directory) and whether it ends with a separator.
Resolved(p, parts) ==
    [raw |-> p, q |-> Join(NoDots(parts)), dot |-> LastIsDot(parts), slash |-> Slash(p)]

Resolve(p) == Resolved(p, Parts(p))

\* The path p resolves to.
norm(p) == Resolve(p).q

\* The directories a path lies in.
Ancestors(p) == {SubSeq(p, 1, i - 1) : i \in {j \in 1..Len(p) : CharAt(p, j) = "/"}}

----------------------------------------------------------------------------
(* The filesystem calls create_stub_file makes.  A filesystem value is the   *)
(* record [dirs, files, links, unsearchable]; a call returns the new         *)
(* filesystem and the exception it raised ("none" when it returned           *)
(* normally).  A failure of the environment (permission denied, disk full,   *)
(* file size limit) is a parameter of the call, the record fault:            *)
(* fault.mkdir counts the mkdir calls that succeed before one is refused,    *)
(* fault.open tells whether the open is refused, fault.write counts the      *)
(* characters that reach the file before the write fails (-1: no such        *)
(* failure), and fault.refusal is the exception a refused mkdir or open      *)
(* raises.                                                                   *)

\* The directories at which the lookup of a path stops, the path lying in the
\* directories ancestors: those that are no directory, and those the process
\* may not search, the current directory being searched first.
Stops(ancestors, fs) ==
    (ancestors \ fs.dirs) \cup ((ancestors \cup {""}) \cap fs.unsearchable)

\* The outermost of the paths given, which lie in one another.
Outermost(bad) == CHOOSE a \in bad : \A b \in bad : Len(a) <= Len(b)

\* The failure of a lookup that stops at a: EACCES at a directory that may
\* not be searched, ENOTDIR at a regular file, ENOENT where nothing is.
StopError(a, fs) ==
    IF a \in fs.unsearchable THEN "PermissionError"
    ELSE IF a \in DOMAIN fs.files THEN "NotADirectoryError"
    ELSE "FileNotFoundError"

\* The failure of a lookup that stops at the paths bad: the outermost decides.
FirstError(bad, fs) == IF bad = {} THEN "none" ELSE StopError(Outermost(bad), fs)

\* Failure of resolving p, which lies in the directories ancestors; "none" if
\* p can be looked up in, or created in, its directory.  The empty path
\* names nothing.
ParentErrorOf(p, ancestors, fs) ==
    IF p = "" THEN "FileNotFoundError" ELSE FirstError(Stops(ancestors, fs), fs)

\* The directories that are searched when the resolved path r is looked up,
\* besides the current directory.
DirsNeeded(r) == Ancestors(r.q) \cup (IF r.dot /\ r.q # "" THEN {r.q} ELSE {})

\* Failure of looking up the resolved path r.
ErrorAt(r, fs) == ParentErrorOf(r.raw, DirsNeeded(r), fs)

ParentError(p, fs) == ErrorAt(Resolve(p), fs)

\* Whether r, looked up without failure, is a directory.  A directory that may
\* not be searched can still be looked up itself.
IsDirAt(r, fs) == r.dot \/ r.q = "" \/ r.q \in fs.dirs

\* Whether r, looked up without failure, is there: a regular file is not found
\* under a name that ends with a separator.
ExistsAt(r, fs) == IsDirAt(r, fs) \/ (r.q \in DOMAIN fs.files /\ ~r.slash)

IsDirResolved(r, fs) == ErrorAt(r, fs) = "none" /\ IsDirAt(r, fs)
ExistsResolved(r, fs) == ErrorAt(r, fs) = "none" /\ ExistsAt(r, fs)

\* os.path.isdir(p): False when the lookup fails, whatever the failure.
isdir(p, fs) == IsDirResolved(Resolve(p), fs)

\* os.path.exists(p): False when the lookup fails, whatever the failure.
exists(p, fs) == ExistsResolved(Resolve(p), fs)

\* os.mkdir of the resolved path r, given the failure perr of looking it up.
MkdirAt(r, fs, fault, perr) ==
    IF perr # "none" THEN [fs |-> fs, err |-> perr, fault |-> fault]
    ELSE IF IsDirAt(r, fs) \/ r.q \in DOMAIN fs.files
    THEN [fs |-> fs, err |-> "FileExistsError", fault |-> fault]
    ELSE IF fault.mkdir = 0
    THEN [fs |-> fs, err |-> fault.refusal, fault |-> fault]
    ELSE [fs |-> [fs EXCEPT !.dirs = @ \cup {r.q}], err |-> "none",
          fault |-> [fault EXCEPT !.mkdir = IF @ > 0 THEN @ - 1 ELSE @]]

MkdirResolved(r, fs, fault) == MkdirAt(r, fs, fault, ErrorAt(r, fs))

\* os.mkdir(name)
mkdir(name, fs, fault) == MkdirResolved(Resolve(name), fs, fault)

\* makedirs' "except OSError: if not exist_ok or not path.isdir(name): raise"
\* around the mkdir of the leaf, whose result is m.
LeafResult(name, exist_ok, m) ==
    IF m.err # "none" /\ exist_ok /\ isdir(name, m.fs) THEN [m EXCEPT !.err = "none"] ELSE m

\* makedirs after the ancestors were dealt with, with result up: a
\* FileExistsError of theirs is passed over, any other ends the call.
MakeLeaf(name, exist_ok, up) ==
    IF up.err \notin {"none", "FileExistsError"} THEN up
    ELSE LeafResult(name, exist_ok, mkdir(name, up.fs, up.fault))

\* os.mkdir for os.makedirs: the leaf only, its ancestors have to exist.
makedirs_flat(name, exist_ok, fs, fault) ==
    LeafResult(name, exist_ok, mkdir(name, fs, fault))

\* makedirs' "head, tail = path.split(name); if not tail: head, tail =
\* path.split(head)", s being path.split(name).
Resplit(s) == IF s.tail = "" THEN split(s.head) ELSE s

RECURSIVE makedirs(_, _, _, _)

\* makedirs, given its (head, tail): the missing ancestors first, then the leaf.
MakeFrom(name, s, exist_ok, fs, fault) ==
    IF s.head # "" /\ s.tail # "" /\ ~exists(s.head, fs)
    THEN IF s.tail = "."
         THEN [makedirs(s.head, exist_ok, fs, fault) EXCEPT
                  !.err = IF @ = "FileExistsError" THEN "none" ELSE @]
         ELSE MakeLeaf(name, exist_ok, makedirs(s.head, exist_ok, fs, fault))
    ELSE MakeLeaf(name, exist_ok, [fs |-> fs, err |-> "none", fault |-> fault])

\* os.makedirs(name, exist_ok=exist_ok), line 7: create the missing ancestors
\* top-down, then the leaf; an existing leaf directory is an error only when
\* exist_ok is false.
makedirs(name, exist_ok, fs, fault) ==
    MakeFrom(name, Resplit(split(name)), exist_ok, fs, fault)

\* The names of the file at path q: q, and the paths that are hard links to
\* the same file.
Names(q, fs) == {q} \cup UNION {g \in fs.links : q \in g}

\* The files fl, the file with the names given now holding text.
Store(names, text, fl) == [n \in names |-> text] @@ fl

\* open(path, 'w') of the resolved path r, given the failure perr of looking
\* it up.  A name that ends with a separator is refused as a directory.  The
\* file is created with the one name, or truncated, under all its names.
OpenAt(r, fs, fault, perr) ==
    IF perr # "none" THEN [fs |-> fs, err |-> perr]
    ELSE IF IsDirAt(r, fs) \/ r.slash THEN [fs |-> fs, err |-> "IsADirectoryError"]
    ELSE IF fault.open THEN [fs |-> fs, err |-> fault.refusal]
    ELSE [fs |-> [fs EXCEPT !.files = Store(Names(r.q, fs), "", @)], err |-> "none"]

OpenResolved(r, fs, fault) == OpenAt(r, fs, fault, ErrorAt(r, fs))

\* open(path, 'a'): an existing file keeps its content.
open_a(path, fs, fault) ==
    IF norm(path) \in DOMAIN fs.files /\ ~fault.open THEN [fs |-> fs, err |-> "none"]
    ELSE OpenResolved(Resolve(path), fs, fault)

\* open(path, 'w'), line 8: create the file, or truncate it when it exists.
open_w(path, fs, fault) == OpenResolved(Resolve(path), fs, fault)

\* f.write(s): s is appended to the file object's buffer buf.  The buffer
\* (io.DEFAULT_BUFFER_SIZE, 8192 bytes) holds the whole stub, so nothing
\* reaches the file before the with-block is left.
f_write(buf, s) == buf \o s

\* The strings written by lines 9-13, in order.
Chunks(title) == <<
    "# " \o title \o "\n\n",
    "## Overview\n\n",
    "## Usage\n\n",
    "## Examples\n\n",
    "## Related Types\n\n" >>

RECURSIVE Buffered(_, _)
\* The buffer after the f.write calls of lines 9-13, in order.
Buffered(chunks, buf) ==
    IF chunks = <<>> THEN buf ELSE Buffered(Tail(chunks), f_write(buf, Head(chunks)))

\* The file at the resolved path q with text appended to it: the file grows
\* under all its names.
AppendTo(q, text, fs) ==
    [fs EXCEPT !.files = Store(Names(q, fs), @[q] \o text, @)]

\* Leaving the with-block closes the file, which flushes the buffer: the text
\* is appended to the file, or, when the write fails (disk full, file size
\* limit), the characters that were accepted are and OSError is raised.
Flush(path, buf, fs, budget) ==
    IF budget < 0 \/ budget >= Len(buf)
    THEN [fs |-> AppendTo(norm(path), buf, fs), err |-> "none"]
    ELSE [fs |-> AppendTo(norm(path), SubSeq(buf, 1, budget), fs), err |-> "OSError"]

\* The with-block, lines 9-13, on the file just opened.
WriteAll(path, chunks, fs, budget) == Flush(path, Buffered(chunks, ""), fs, budget)

\* The exceptions a refused mkdir or open raises: PermissionError (EACCES) or
\* another OSError (ENOSPC, EROFS, ...).
Refusals == {"PermissionError", "OSError"}

\* No failure of the environment.
NoFault == [mkdir |-> -1, open |-> FALSE, write |-> -1, refusal |-> "OSError"]

\* Number of directories on the way to path.
Depth(path) == Cardinality({i \in 1..Len(path) : CharAt(path, i) = "/"})

\* The failures a create_stub_file(path, title) call can meet: a mkdir that is
\* refused after n were done, an open that is refused, a flush that fails
\* after n characters of the stub.  A lookup that is refused for want of
\* search permission is none of them: it follows from the directories of
\* fs.unsearchable, and comes before the refusals listed here.
Faults(path, title) ==
    {NoFault}
    \cup {[NoFault EXCEPT !.mkdir = n, !.refusal = e] :
             n \in 0..(Depth(path) - 1), e \in Refusals}
    \cup {[NoFault EXCEPT !.open = TRUE, !.refusal = e] : e \in Refusals}
    \cup {[NoFault EXCEPT !.write = n] :
             n \in 0..(Len(Buffered(Chunks(title), "")) - 1)}

\* Lines 9-13, op being the result of the open of line 8.
AfterOpen(path, title, fault, op) ==
    IF op.err # "none" THEN op
    ELSE WriteAll(path, Chunks(title), op.fs, fault.write)

\* AfterMakedirs that leaves an existing file alone.
AfterMakedirs_keep(path, title, fault, md) ==
    IF md.err # "none" THEN [fs |-> md.fs, err |-> md.err]
    ELSE IF norm(path) \in DOMAIN md.fs.files THEN [fs |-> md.fs, err |-> "none"]
    ELSE AfterOpen(path, title, fault, open_w(path, md.fs, fault))

\* Lines 8-13, md being the result of the makedirs of line 7.
AfterMakedirs(path, title, fault, md) ==
    IF md.err # "none" THEN [fs |-> md.fs, err |-> md.err]
    ELSE AfterOpen(path, title, fault, open_w(path, md.fs, fault))

\* create_stub_file with os.makedirs(path) for os.makedirs(os.path.dirname(path)).
create_stub_file_mkpath(path, title, fs, fault) ==
    AfterMakedirs(path, title, fault, makedirs(path, TRUE, fs, fault))

\* create_stub_file(path, title), lines 5-13.
create_stub_file(path, title, fs, fault) ==
    AfterMakedirs(path, title, fault, makedirs(dirname(path), TRUE, fs, fault))

----------------------------------------------------------------------------
(* main(), lines 73-89.                                                     *)

RECURSIVE CategoryEntries(_, _, _)
CategoryEntries(level, category, types) ==
    IF types = <<>> THEN <<>>
    ELSE <<[level |-> level, category |-> category, name |-> Head(types)]>>
         \o CategoryEntries(level, category, Tail(types))

RECURSIVE LevelEntries(_, _)
\* The order in which one "for category, types in ....items()" loop with its
\* inner "for type_name in types" loop visits a level.
LevelEntries(level, types) ==
    IF types = <<>> THEN <<>>
    ELSE CategoryEntries(level, Head(types).category, Head(types).types)
         \o LevelEntries(level, Tail(types))

\* Every (level, category, name) in the order main() processes them.
Catalog ==
    LevelEntries("level1", level1_types)
    \o LevelEntries("level2", level2_types)
    \o LevelEntries("level3", level3_types)

N == Len(Catalog)

\* pathlib's a / b for relative parts, as str() renders it.
PathJoin(a, b) == a \o "/" \o b

\* TargetPath with the name in its original case (the .lower() left out).
TargetPath_nolower(e) ==
    PathJoin(PathJoin(PathJoin(base_dir, e.level), e.category), e.name \o ".md")

\* TargetPath with the category directory left out.
TargetPath_nocategory(e) ==
    PathJoin(PathJoin(base_dir, e.level), Lower(e.name) \o ".md")

\* TargetPath with every stub directly in the base directory.
TargetPath_flat(e) == PathJoin(base_dir, Lower(e.name) \o ".md")

\* str(base_dir / "levelL" / category / f"{type_name.lower()}.md"),
\* lines 76, 82, 88.
TargetPath(e) ==
    PathJoin(PathJoin(PathJoin(base_dir, e.level), e.category), Lower(e.name) \o ".md")

\* StubCall with the lowercased name passed as the title too.
StubCall_lower(e) == [path |-> TargetPath(e), title |-> Lower(e.name)]

\* The arguments of the call of lines 77, 83, 89.
StubCall(e) == [path |-> TargetPath(e), title |-> e.name]

\* The calls main() makes, by position in the catalog.
Calls == [i \in 1..N |-> StubCall(Catalog[i])]

NoCall == [path |-> "", title |-> ""]

Min(S) == CHOOSE i \in S : \A j \in S : i <= j

\* AfterCall with the call wrapped in "try: ... except OSError: pass".
AfterCall_swallow(e, rest) == IF rest = {} THEN "done" ELSE "running"

\* An exception raised by create_stub_file is caught nowhere in main(): it ends
\* the run.  Otherwise the loops go on until the catalog is exhausted.
AfterCall(e, rest) ==
    IF e # "none" THEN "aborted"
    ELSE IF rest = {} THEN "done"
    ELSE "running"

\* The filesystem as it is.
CurFS ==
    [dirs |-> dirs, files |-> files, links |-> links, unsearchable |-> unsearchable]

\* The state after the call for entry i returned r.
Returned(i, r) ==
    /\ dirs' = r.fs.dirs
    /\ files' = r.fs.files
    /\ todo' = todo \ {i}
    /\ cur' = i
    /\ call' = Calls[i]
    /\ err' = r.err
    /\ pc' = AfterCall(r.err, todo \ {i})
    /\ UNCHANGED <<links, unsearchable, run, fs0>>

\* One iteration of a loop body (lines 76-77, 82-83, 88-89) for entry i.
ProcessEntry(i, fault) ==
    Returned(i, create_stub_file(Calls[i].path, Calls[i].title, CurFS, fault))

\* main() takes the entries in catalog order.
MainStep ==
    /\ pc = "running"
    /\ todo # {}
    /\ \E fault \in Faults(Calls[Min(todo)].path, Calls[Min(todo)].title) :
           ProcessEntry(Min(todo), fault)
    /\ UNCHANGED anchor

\* The script is run again after a run that ended normally (line 93).
Rerun ==
    /\ pc = "done"
    /\ run < MaxRuns
    /\ run' = run + 1
    /\ todo' = 1..N
    /\ cur' = 0
    /\ call' = NoCall
    /\ pc' = "running"
    /\ err' = "none"
    /\ fs0' = CurFS
    /\ UNCHANGED <<dirs, files, links, unsearchable, anchor>>

----------------------------------------------------------------------------
(* Initial filesystems.                                                     *)

CatalogPaths == {Calls[i].path : i \in 1..N}
CatalogDirs == UNION {Ancestors(q) : q \in CatalogPaths}

\* A filesystem holds nothing twice and nothing outside a directory, what
\* may not be searched is a directory, and the names of one file are regular
\* files with the same content, no path being in two groups.
WellFormed(fs) ==
    /\ fs.dirs \cap DOMAIN fs.files = {}
    /\ \A q \in fs.dirs \cup DOMAIN fs.files : Ancestors(q) \subseteq fs.dirs
    /\ fs.unsearchable \subseteq fs.dirs \cup {""}
    /\ \A g \in fs.links :
        /\ g \subseteq DOMAIN fs.files
        /\ \A a, b \in g : fs.files[a] = fs.files[b]
        /\ \A h \in fs.links : g = h \/ g \cap h = {}

EmptyFS == [dirs |-> {}, files |-> <<>>, links |-> {}, unsearchable |-> {}]

\* The filesystem with the files given (a function) and the directories given,
\* and the directories they lie in, all of which may be searched.
MakeFS(ds, fl) ==
    [dirs |-> ds \cup UNION {Ancestors(q) : q \in ds \cup DOMAIN fl}, files |-> fl,
     links |-> {}, unsearchable |-> {}]

\* The filesystem fs with the directories un closed to search.
Closed(fs, un) == [fs EXCEPT !.unsearchable = un]

\* The filesystem fs with, for each of the groups given, one more file that
\* holds text and has the paths of the group as its names, in the directories
\* they lie in.
Linked(fs, groups, text) ==
    [fs EXCEPT !.dirs = @ \cup UNION {Ancestors(q) : q \in UNION groups},
               !.files = Store(UNION groups, text, @),
               !.links = @ \cup groups]

\* Directories of the output tree that are present before the run.
PreDirs == {
    {},
    {base_dir},
    {"PythonTypeGuide/level1/primitive", "PythonTypeGuide/level3"},
    CatalogDirs }

\* Files at target paths, with other content.
StaleFiles ==
    ("PythonTypeGuide/level1/primitive/int.md" :> "old notes about int\n")
      @@ ("PythonTypeGuide/level1/collections/list.md" :> "")
      @@ ("PythonTypeGuide/level3/decorators/final.md" :>
            "# Final\n\n## Overview\n\n## Usage\n\n## Examples\n\n## Related Types\n\n")
      @@ ("PythonTypeGuide/level3/decorators/notrequired.md" :>
            "# NotRequired\n\n## Overview\n\n## Usage\n\n## Examples\n\n## Related Types\n\nSee Required.\n")
      @@ ("PythonTypeGuide/index.md" :> "keep me\n")

\* Files that are present before the run.
PreFiles == {
    <<>>,
    \* files and directories the catalog does not name
    [q \in {"notes.txt", "other/readme.md"} |-> "keep me\n"],
    [q \in {"notes.txt", "PythonTypeGuide/README.md",
            "PythonTypeGuide/level1/primitive/extra.md",
            "PythonTypeGuide/level4/misc/int.md"} |-> "keep me\n"],
    StaleFiles,
    \* a regular file where a directory is needed
    [q \in {"PythonTypeGuide/level2"} |-> "not a directory\n"] }

\* A directory where a file is to be written.
PreObstacles == {{}, {"PythonTypeGuide/level1/collections/set.md"}}

\* Directories the process may not search: none, one that holds target paths
\* (and the obstacle), one that holds category directories.
PreUnsearchable == {
    {},
    {"PythonTypeGuide/level1/collections"},
    {"PythonTypeGuide/level2"} }

\* Files with several names before the run: a file the catalog does not name
\* that is also at a target path, and a file at three target paths.
ForeignLink == {"notes.txt", "PythonTypeGuide/level1/primitive/bool.md"}
TargetLink == {
    "PythonTypeGuide/level1/primitive/int.md",
    "PythonTypeGuide/level1/primitive/float.md",
    "PythonTypeGuide/level3/decorators/final.md" }
PreLinks == {{ForeignLink}, {TargetLink}, {ForeignLink, TargetLink}}

\* The filesystems the files with several names are put in.
LinkBases == {
    EmptyFS,
    MakeFS(CatalogDirs, <<>>),
    MakeFS({}, StaleFiles),
    Closed(MakeFS(CatalogDirs, <<>>), {"PythonTypeGuide/level1/collections"}) }

InitFS ==
    {fs \in {Closed(MakeFS(ds \cup ob, fl), un) :
                ds \in PreDirs, ob \in PreObstacles, fl \in PreFiles, un \in PreUnsearchable}
             \cup {Linked(fs, groups, "keep me\n") : fs \in LinkBases, groups \in PreLinks} :
        WellFormed(fs)}

Init ==
    /\ \E fs \in InitFS :
        /\ dirs = fs.dirs
        /\ files = fs.files
        /\ links = fs.links
        /\ unsearchable = fs.unsearchable
        /\ fs0 = fs
    /\ todo = 1..N
    /\ cur = 0
    /\ call = NoCall
    /\ pc = "running"
    /\ err = "none"
    /\ run = 1
    /\ anchor = 0

Next == MainStep \/ Rerun

Spec == Init /\ [][Next]_vars

----------------------------------------------------------------------------
(* create_stub_file on its own: one call with arguments of any shape, the   *)
(* ancestors of the path missing, partly present or all present.            *)

StubPaths == {
    "int.md",
    "docs/int.md",
    "docs/api/int.md",
    "PythonTypeGuide/level1/primitive/int.md" }

StubTitles == {"int", "Final"}

\* The filesystems a call for path is tried on: the n outermost ancestors of
\* path present, for every n, and the file itself present or not once they all
\* are, with that one name or with another name too; and all of them present,
\* one of them or the current directory closed to search.  No regular file
\* lies where a directory is needed.
StubFS(path) ==
    {MakeFS({a \in Ancestors(path) : Depth(a) < n}, <<>>) : n \in 0..Depth(path)}
    \cup {MakeFS({}, path :> "old content\n")}
    \cup {Linked(EmptyFS, {{path, "notes.txt"}}, "old content\n")}
    \cup {Closed(MakeFS(Ancestors(path), <<>>), {a}) : a \in Ancestors(path) \cup {""}}

StubInit ==
    /\ \E path \in StubPaths, title \in StubTitles :
        /\ call = [path |-> path, title |-> title]
        /\ \E fs \in StubFS(path) :
            /\ dirs = fs.dirs
            /\ files = fs.files
            /\ links = fs.links
            /\ unsearchable = fs.unsearchable
            /\ fs0 = fs
    /\ todo = {}
    /\ cur = 0
    /\ pc = "running"
    /\ err = "none"
    /\ run = 1
    /\ anchor = 0

\* The state after the call returned r.
StubReturned(r) ==
    /\ dirs' = r.fs.dirs
    /\ files' = r.fs.files
    /\ err' = r.err
    /\ pc' = AfterCall(r.err, {})
    /\ UNCHANGED <<links, unsearchable, todo, cur, call, run, anchor, fs0>>

\* create_stub_file(call.path, call.title)
StubStep ==
    /\ pc = "running"
    /\ \E fault \in Faults(call.path, call.title) :
           StubReturned(create_stub_file(call.path, call.title, CurFS, fault))

StubNext == StubStep

StubSpec == StubInit /\ [][StubNext]_vars

----------------------------------------------------------------------------
(* The loop bodies of main() taken in another order than the catalog's, on  *)
(* an empty target directory and with no I/O failure.  The catalog is taken *)
(* as a ring.  An order starts at any entry; at each step it goes on with   *)
(* the next unprocessed entry after the anchor (the anchor itself at        *)
(* first), with one of the MaxAhead unprocessed or processed entries that   *)
(* follow the anchor, or with the unprocessed entry farthest from it, which *)
(* is the one before those processed when the order runs backwards.  The    *)
(* anchor is the unprocessed entry the order has not gone past.             *)

\* The number of steps from entry a on to entry x.
Dist(a, x) == (x - a) % N

\* The entries of T that are the anchor a or among the MaxAhead that follow it.
Ahead(T, a) == {x \in T : Dist(a, x) <= MaxAhead}

\* The entry before and the entry after entry i.
Left(i) == IF i = 1 THEN N ELSE i - 1
Right(i) == IF i = N THEN 1 ELSE i + 1

RECURSIVE Back(_, _)
\* The first entry of T met from x backwards, T not being empty.
Back(T, x) == IF x \in T THEN x ELSE Back(T, Left(x))

RECURSIVE Forth(_, _)
\* The first entry of T met from x onwards, T not being empty.
Forth(T, x) == IF x \in T THEN x ELSE Forth(T, Right(x))

\* The entry of T farthest from a.
Last(T, a) == Back(T, Left(a))

\* The entry of T nearest to a, a itself when it is in T.
Nearest(T, a) == IF T = {} THEN a ELSE Forth(T, a)

\* The entries an order may go on with.
Choices(T, a) == Ahead(T, a) \cup {Last(T, a)}

PermInit ==
    /\ \E fs \in {EmptyFS, MakeFS({base_dir}, <<>>)} :
        /\ dirs = fs.dirs
        /\ files = fs.files
        /\ links = fs.links
        /\ unsearchable = fs.unsearchable
        /\ fs0 = fs
    /\ todo = 1..N
    /\ cur = 0
    /\ call = NoCall
    /\ pc = "running"
    /\ err = "none"
    /\ run = 1
    /\ anchor \in 1..N

PermStep ==
    /\ pc = "running"
    /\ \E i \in Choices(todo, anchor) :
        /\ ProcessEntry(i, NoFault)
        /\ anchor' = Nearest(todo \ {i}, anchor)

PermNext == PermStep

PermSpec == PermInit /\ [][PermNext]_vars

----------------------------------------------------------------------------
(* What the claims speak of.                                                *)

\* The path of an entry, written out: <base>/level{L}/{category}/{lowercase(name)}.md
ExpectedPath(e) ==
    "PythonTypeGuide/" \o e.level \o "/" \o e.category \o "/" \o Lower(e.name) \o ".md"

ExpectedPaths == [i \in 1..N |-> ExpectedPath(Catalog[i])]
ExpectedPathSet == {ExpectedPaths[i] : i \in 1..N}
ExpectedDirs == UNION {Ancestors(q) : q \in ExpectedPathSet}

\* The lines of the stub titled T.
StubLines(T) ==
    <<"# " \o T, "", "## Overview", "", "## Usage", "", "## Examples", "",
      "## Related Types", "">>

RECURSIVE JoinLines(_)
\* The text made of the lines given, each ended by a newline.
JoinLines(ls) == IF ls = <<>> THEN "" ELSE Head(ls) \o "\n" \o JoinLines(Tail(ls))

StubTexts == [i \in 1..N |-> JoinLines(StubLines(Catalog[i].name))]

\* The file at path q holds exactly the text t.
Holds(q, t) == q \in DOMAIN files /\ files[q] = t

\* The entries in directory d.
Children(d) == {q \in dirs \cup DOMAIN files : dirname(q) = d}

Levels == <<level1_types, level2_types, level3_types>>
LevelNames == <<"level1", "level2", "level3">>

RECURSIVE Range(_)
Range(sq) == IF sq = <<>> THEN {} ELSE {Head(sq)} \cup Range(Tail(sq))

\* The text of file q when the run started, or that it was not there.
Before(q) == IF q \in DOMAIN fs0.files THEN <<"file", fs0.files[q]>> ELSE <<"absent">>
Now(q) == IF q \in DOMAIN files THEN <<"file", files[q]>> ELSE <<"absent">>

\* The failures the environment injects, as opposed to those the arguments cause.
Injected == {"PermissionError", "OSError"}

Max(S) == CHOOSE i \in S : \A j \in S : j <= i

\* Whether the paths p and q are names of one file.
SameFile(p, q) == \E g \in links : p \in g /\ q \in g

\* Whether the file of entry j's path has the path of an entry of S as another
\* name.
Shares(j, S) == \E g \in links : Calls[j].path \in g /\ \E k \in S \ {j} : Calls[k].path \in g

\* The last entry, in catalog order, whose path is a name of the file at entry
\* i's path: i itself when no later entry's path is a hard link to that file.
LastOf(i) ==
    IF Shares(i, 1..N)
    THEN Max({j \in 1..N : j = i \/ SameFile(ExpectedPaths[i], ExpectedPaths[j])})
    ELSE i

\* C1: after a run of main() that ended normally, whatever the filesystem was
\* when it started, every catalog entry has a file at
\* PythonTypeGuide/level{L}/{category}/{lowercase(name)}.md.
C1_EveryStubExists ==
    pc = "done" =>
        \A i \in 1..N :
            /\ Catalog[i].level \in {"level1", "level2", "level3"}
            /\ ExpectedPaths[i] \in DOMAIN files

C1_Witness ==
    /\ pc = "done"
    /\ run = 1
    /\ "PythonTypeGuide/README.md" \in DOMAIN fs0.files
    /\ "PythonTypeGuide/level1/primitive" \in fs0.dirs
    /\ "PythonTypeGuide/level2" \notin fs0.dirs
    /\ "PythonTypeGuide/level3/decorators/notrequired.md" \in DOMAIN files

C3_Idempotent ==
    (run > 1 /\ pc = "done") => (dirs = fs0.dirs /\ files = fs0.files)

C3_Witness ==
    /\ run = 2
    /\ pc = "done"
    /\ cur = N
    /\ Cardinality(DOMAIN files) >= N

C5_ExactTree ==
    (pc = "done" /\ base_dir \notin fs0.dirs /\ base_dir \notin DOMAIN fs0.files) =>
        /\ Children(base_dir) = {PathJoin(base_dir, LevelNames[k]) : k \in 1..3}
        /\ \A k \in 1..3 :
            LET ldir == PathJoin(base_dir, LevelNames[k])
            IN  /\ ldir \in dirs
                /\ Children(ldir) = {PathJoin(ldir, c.category) : c \in Range(Levels[k])}
                /\ \A c \in Range(Levels[k]) :
                    LET cdir == PathJoin(ldir, c.category)
                    IN  /\ cdir \in dirs
                        /\ Children(cdir) \subseteq DOMAIN files
                        /\ Children(cdir) =
                             {PathJoin(cdir, Lower(c.types[j]) \o ".md") : j \in 1..Len(c.types)}
                        /\ Cardinality(Children(cdir)) = Len(c.types)
        /\ {q \in DOMAIN files : base_dir \in Ancestors(q)} = ExpectedPathSet
        /\ Cardinality({q \in DOMAIN files : base_dir \in Ancestors(q)}) = N

C5_Witness ==
    /\ pc = "done"
    /\ base_dir \notin fs0.dirs
    /\ "notes.txt" \in DOMAIN fs0.files
    /\ Cardinality(Children("PythonTypeGuide/level2")) = Len(level2_types)

RECURSIVE InOrder(_, _)
InOrder(i, r) ==
    IF i > N \/ r.err # "none" THEN r
    ELSE InOrder(i + 1, create_stub_file(Calls[i].path, Calls[i].title, r.fs, NoFault))

\* C8: on an empty target directory and with no I/O failure, the entries
\* processed in another order than the catalog's all succeed and leave the
\* tree the catalog order leaves.  The orders are those of PermSpec: with
\* MaxAhead one less than the number of entries, every permutation.
C8_OrderIndependent ==
    /\ pc # "aborted"
    /\ err = "none"
    /\ pc = "done" =>
        /\ InOrder(1, [fs |-> fs0, err |-> "none"]).err = "none"
        /\ CurFS = InOrder(1, [fs |-> fs0, err |-> "none"]).fs

C8_Witness ==
    /\ pc = "done"
    /\ cur \notin {1, N}
    /\ fs0 = EmptyFS
    /\ Cardinality(DOMAIN files) = N

\* C9: for every path given to create_stub_file, a bare file name included, and
\* whichever of its ancestors exist, the call fails only on an I/O failure of
\* the environment: the directory step raises nothing, and a call that returns
\* has created every ancestor and written the stub.
C9_AnyPath ==
    /\ pc = "aborted" => err \in Injected
    /\ pc = "done" =>
        /\ Ancestors(call.path) \subseteq dirs
        /\ Holds(call.path, JoinLines(StubLines(call.title)))

====
